---- MODULE Spec2Model ----
(***************************************************************************)
(* Navigation controller (class MagazineNavigator) embedded in every       *)
(* document emitted by MagazineGenerator.generateMagazine, together with   *)
(* the part of the generator that fixes the controller's inputs: the       *)
(* number of section elements, the number of page elements in each, and    *)
(* the class lists ("active" / "prev") they carry at document load.        *)
(*                                                                         *)
(* Markdown mode (buildConfigFromMarkdown) is modelled for the grouping of  *)
(* files into sections, and the head of the document for the layout class  *)
(* that generateMagazine writes into the <body> tag.                        *)
(*                                                                         *)
(* Indices are 0-based as in the source: a NodeList of length n is a       *)
(* function with domain 0..n-1, a classList is a subset of Flags.          *)
(***************************************************************************)
EXTENDS Integers, Sequences, FiniteSets, TLC

(* ---------------------------- bounds ----------------------------------- *)

\* largest number of entries of config.sections
MaxCfgSections == 2

\* largest number of entries of section.pages
MaxPages == 2

\* Markdown files on one command line
MaxFiles == 2

\* integer arguments of direct calls to goToSection: from below 0 up to
\* the largest totalSections (cover + MaxCfgSections), which no list holds
SectionArgs == -1 .. (MaxCfgSections + 1)

\* integer arguments of direct calls to goToPage: from below 0 up to the
\* largest pages.length, which no list holds
PageArgs == -1 .. MaxPages

\* (screenX, screenY) pairs that a touch event may report: their
\* differences give horizontal displacements of 0, 1, 49 (just below the
\* threshold) and 50 (the threshold), the vertical-dominant displacements
\* (-10, 60) and (-59, 60) above the threshold, the exact diagonal
\* (-60, 60), and the reverse of each
Points == {<<0, 0>>, <<49, 0>>, <<50, 0>>, <<-10, 60>>}

\* key identifiers: the four directional keys and one other key
Keys == {"ArrowUp", "ArrowDown", "ArrowLeft", "ArrowRight", "Enter", "PageDown"}

Flags == {"active", "prev"}

(* --------------------- generator: document at load --------------------- *)

\* values of page.backgroundClass that name no navigation flag: absent, or
\* one of the predefined background classes
PlainClasses == {"", "tech-bg"}

\* a config is config.sections: one entry per section, each the sequence
\* of its pages, a page being its backgroundClass (titles and paragraphs
\* are taken as plain text); an empty pages array is accepted, nothing in
\* generateMagazine or build rejects it
ConfigsOver(classes) ==
    UNION {[1..n -> UNION {[1..m -> classes] : m \in 0..MaxPages}] :
              n \in 0..MaxCfgSections}

\* configs whose background classes are plain
Configs == ConfigsOver(PlainClasses)

\* the pages of a config whose backgroundClass is "active" or "prev"
FlagNamedPages(cfg) ==
    {sp \in (1..Len(cfg)) \X (1..MaxPages) :
        sp[2] <= Len(cfg[sp[1]]) /\ cfg[sp[1]][sp[2]] \in Flags}

\* configs in which at most one page has a backgroundClass that is also
\* the name of a navigation flag
StyledConfigs ==
    {cfg \in ConfigsOver(PlainClasses \cup Flags) :
        Cardinality(FlagNamedPages(cfg)) <= 1}

\* the tokens that `${page.backgroundClass || ''}` adds to the class
\* attribute
classTokens(backgroundClass) ==
    IF backgroundClass = "" THEN {} ELSE {backgroundClass}

\* a cover section that holds a second page
coverSection_TwoPages ==
    [classList |-> {"active"},
     pages     |-> [p \in 0..1 |-> IF p = 0 THEN {"active"} ELSE {}],
     pageDots  |-> [p \in 0..1 |-> IF p = 0 THEN {"active"} ELSE {}]]

\* <section class="section active" data-section="0"> with its single
\* <div class="page active cover-page"> and single <div class="page-dot active">
coverSection ==
    [classList |-> {"active"},
     pages     |-> [p \in 0..0 |-> {"active"}],
     pageDots  |-> [p \in 0..0 |-> {"active"}]]

\* section.pages.map(...) :
\*   class="page${pageIndex === 0 ? ' active' : ''} ${page.backgroundClass || ''}"
\* (of the class tokens only the flags are kept in a class list)
pagesHTML(pages) ==
    [p \in 0..(Len(pages) - 1) |->
        ((IF p = 0 THEN {"active"} ELSE {}) \cup classTokens(pages[p + 1]))
            \cap Flags]

\* section.pages.map(...) : class="page-dot active" for index 0
pageIndicators(pages) ==
    [p \in 0..(Len(pages) - 1) |-> IF p = 0 THEN {"active"} ELSE {}]

\* <section class="section" data-section="${sectionIndex + 1}"> ... </section>
sectionsHTML(cfg) ==
    [k \in 1..Len(cfg) |->
        [classList |-> {},
         pages     |-> pagesHTML(cfg[k]),
         pageDots  |-> pageIndicators(cfg[k])]]

\* section indicators for the sections of the config only, none for the
\* cover
sectionIndicators_NoCover(cfg) ==
    [i \in 0..(Len(cfg) - 1) |-> IF i = 0 THEN {"active"} ELSE {}]

\* Array.from({length: sections.length + 1}) : "section-dot active" for 0
sectionIndicators(cfg) ==
    [i \in 0..Len(cfg) |-> IF i = 0 THEN {"active"} ELSE {}]

\* the document: the template's cover section followed by {{SECTIONS}},
\* and the {{SECTION_INDICATORS}} list
generateMagazine(cfg) ==
    [sections    |-> [s \in 0..Len(cfg) |->
                        IF s = 0 THEN coverSection ELSE sectionsHTML(cfg)[s]],
     sectionDots |-> sectionIndicators(cfg)]

(* ------------------------------- layout -------------------------------- *)

\* the layout names, each a string of characters
classic == <<"c", "l", "a", "s", "s", "i", "c">>
split == <<"s", "p", "l", "i", "t">>
minimal == <<"m", "i", "n", "i", "m", "a", "l">>

\* new Set(['classic', 'split', 'minimal'])
allowed == {classic, split, minimal}

\* config.layout, or the --layout option, when none is given
undefined == <<"undefined">>

\* Values of the layout: none, the empty string, the three names, names in
\* other cases, an unknown name, a name padded with a blank.
LayoutInputs ==
    {undefined,
     << >>,
     classic,
     split,
     minimal,
     <<"S", "p", "l", "i", "t">>,
     <<"M", "I", "N", "I", "M", "A", "L">>,
     <<"C", "L", "A", "S", "S", "I", "C">>,
     <<"g", "r", "i", "d">>,
     <<" ", "s", "p", "l", "i", "t">>}

upperCase == <<"A", "B", "C", "D", "E", "F", "G", "H", "I", "J", "K", "L", "M",
               "N", "O", "P", "Q", "R", "S", "T", "U", "V", "W", "X", "Y", "Z">>
lowerCase == <<"a", "b", "c", "d", "e", "f", "g", "h", "i", "j", "k", "l", "m",
               "n", "o", "p", "q", "r", "s", "t", "u", "v", "w", "x", "y", "z">>

\* String.prototype.toLowerCase
toLowerCase(str) ==
    [i \in 1 .. Len(str) |->
        IF \E k \in DOMAIN upperCase : upperCase[k] = str[i]
        THEN lowerCase[CHOOSE k \in DOMAIN upperCase : upperCase[k] = str[i]]
        ELSE str[i]]

\* String(layout || 'classic').toLowerCase(), kept when allowed has it
normalizeLayout(layout) ==
    LET val == toLowerCase(IF layout = undefined \/ layout = << >>
                           THEN classic ELSE layout)
    IN  IF val \in allowed THEN val ELSE classic

\* `layout-${this.normalizeLayout(config.layout)}`, as one token of the
\* class attribute
layoutClass(layout) ==
    LET name == normalizeLayout(layout) IN
    CASE name = classic -> "layout-classic"
      [] name = split   -> "layout-split"
      [] name = minimal -> "layout-minimal"
      [] OTHER          -> "layout-"

\* the class tokens the style sheet has rules for
LayoutClasses == {"layout-classic", "layout-split", "layout-minimal"}

\* The HTML text is a sequence of pieces, each a {{NAME}} placeholder or
\* other text. The template, as far as the title and the layout class go:
\* the <title> of the head, the class of <body>, the cover title.
template ==
    <<"<title>", "{{TITLE}}", "<body class=", "{{LAYOUT_CLASS}}",
      "<h1 class=cover-title>", "{{TITLE}}">>

\* Values of config.title: a plain title, and the text {{LAYOUT_CLASS}}.
Titles == {<<"T">>, <<"{{LAYOUT_CLASS}}">>}

\* html.replace(/\{\{NAME\}\}/g, value) : every occurrence
RECURSIVE replaceAll(_, _, _)
replaceAll(html, placeholder, value) ==
    IF html = << >> THEN << >>
    ELSE (IF Head(html) = placeholder THEN value ELSE <<Head(html)>>)
         \o replaceAll(Tail(html), placeholder, value)

\* html.replace('{{NAME}}', value) : the first occurrence only
RECURSIVE replaceFirst(_, _, _)
replaceFirst(html, placeholder, value) ==
    IF html = << >> THEN << >>
    ELSE IF Head(html) = placeholder THEN value \o Tail(html)
    ELSE <<Head(html)>> \o replaceFirst(Tail(html), placeholder, value)

\* the title placeholders are replaced, then the layout class placeholder
replacePlaceholders(title, layout) ==
    replaceFirst(replaceAll(template, "{{TITLE}}", title),
                 "{{LAYOUT_CLASS}}", <<layoutClass(layout)>>)

\* what the class attribute of <body> holds in html
bodyClassOf(html) ==
    html[(CHOOSE i \in DOMAIN html : html[i] = "<body class=") + 1]

(* ----------------------- Markdown ingestion ---------------------------- *)

\* A string is a sequence of its characters.
Articles == <<"A", "r", "t", "i", "c", "l", "e", "s">>

\* The text after "section:" in the front matter of a Markdown file, as
\* written: none, a bare name, a name padded with a blank, a quoted name
\* with blanks inside the quotes, a quoted blank, the default's own name.
SectionLines ==
    {<< >>,
     <<"F">>,
     <<"F", " ">>,
     <<"\"", " ", "F", "\"">>,
     <<"\"", " ", "\"">>,
     Articles}

\* The argument of --section : not given, a name, a padded name, a blank.
SectionOptions == {<< >>, <<"N">>, <<"F", " ">>, <<" ">>}

\* the command lines of Markdown mode: one to MaxFiles files
CommandLines ==
    [files   : UNION {[1..n -> SectionLines] : n \in 1..MaxFiles},
     section : SectionOptions]

RECURSIVE trimStart(_)
trimStart(str) ==
    IF str # << >> /\ Head(str) = " " THEN trimStart(Tail(str)) ELSE str

RECURSIVE trimEnd(_)
trimEnd(str) ==
    IF str # << >> /\ str[Len(str)] = " "
    THEN trimEnd(SubSeq(str, 1, Len(str) - 1))
    ELSE str

\* String.prototype.trim, for the blank as the only white space
trim(str) == trimEnd(trimStart(str))

\* v.replace(/^"(.*)"$/, '$1') for the quote character q
unquote(str, q) ==
    IF Len(str) >= 2 /\ str[1] = q /\ str[Len(str)] = q
    THEN SubSeq(str, 2, Len(str) - 1)
    ELSE str

\* parseFrontMatter, for the key "section" : the value is trimmed, then
\* one pair of double quotes and one pair of single quotes are taken off
parseFrontMatter(line) ==
    [section |-> unquote(unquote(trim(line), "\""), "'")]

\* a || b for strings: the empty string is falsy
OrElse(a, b) == IF a # << >> THEN a ELSE b

\* (fm.section || options.section || 'Articles').trim()
sectionName(fm, options) ==
    trim(OrElse(fm.section, OrElse(options.section, Articles)))

\* ensureSection: (name && String(name).trim()) || 'Articles'
sectionKey(name) == OrElse(IF name # << >> THEN trim(name) ELSE name, Articles)

\* ensureSection: if (!sectionsMap.has(key)) sectionsMap.set(key, {pages: []})
\* (a Map keeps its keys in insertion order)
ensureSection(sectionsMap, name) ==
    IF \E k \in DOMAIN sectionsMap : sectionsMap[k].key = sectionKey(name)
    THEN sectionsMap
    ELSE Append(sectionsMap, [key |-> sectionKey(name), pages |-> << >>])

\* a push that puts the page in front of the section's pages
pushPage_Front(sectionsMap, key, page) ==
    [k \in DOMAIN sectionsMap |->
        IF sectionsMap[k].key = key
        THEN [sectionsMap[k] EXCEPT !.pages = <<page>> \o @]
        ELSE sectionsMap[k]]

\* sectionsMap.get(key).pages.push(page)
pushPage(sectionsMap, key, page) ==
    [k \in DOMAIN sectionsMap |->
        IF sectionsMap[k].key = key
        THEN [sectionsMap[k] EXCEPT !.pages = Append(@, page)]
        ELSE sectionsMap[k]]

\* the page made from the file at position i of mdFiles: its title and
\* content come from that file, and it names no background class
pageOf(i) == [source |-> i, backgroundClass |-> ""]

RECURSIVE forEachFile(_, _, _, _)
\* mdFiles.forEach(...) from position i on
forEachFile(sectionsMap, mdFiles, options, i) ==
    IF i > Len(mdFiles) THEN sectionsMap
    ELSE LET fm   == parseFrontMatter(mdFiles[i])
             name == sectionName(fm, options)
             key  == sectionKey(name)
         IN forEachFile(pushPage(ensureSection(sectionsMap, name), key, pageOf(i)),
                        mdFiles, options, i + 1)

\* the Map of buildConfigFromMarkdown once every file is read
sectionsMapOf(mdFiles, options) == forEachFile(<< >>, mdFiles, options, 1)

\* buildConfigFromMarkdown: the sections of the config it returns, or the
\* Error it throws when no section holds a page
buildConfigFromMarkdown(mdFiles, options) ==
    LET sectionsMap == sectionsMapOf(mdFiles, options)
        sections == [k \in DOMAIN sectionsMap |-> sectionsMap[k].pages]
    IN IF Len(sections) = 0 \/ \A k \in DOMAIN sections : Len(sections[k]) = 0
       THEN [thrown |-> TRUE, sections |-> << >>]
       ELSE [thrown |-> FALSE, sections |-> sections]

\* the background classes of the pages of a config's sections, which is
\* what generateMagazine reads of them
backgroundClasses(sections) ==
    [k \in DOMAIN sections |->
        [p \in DOMAIN sections[k] |-> sections[k][p].backgroundClass]]

(* ------------------------------ state ---------------------------------- *)

VARIABLES
    sections,        \* this.sections: the .section elements, with their pages
    sectionDots,     \* the .section-dot elements (their class lists)
    currentSection,  \* this.currentSection
    currentPage,     \* this.currentPage
    totalSections,   \* this.totalSections
    touchStartX,     \* this.touchStartX
    touchStartY,     \* this.touchStartY
    touchEndX,       \* this.touchEndX
    touchEndY,       \* this.touchEndY
    thrown,          \* an uncaught exception left a listener
    defaultPrevented,\* e.preventDefault() was called on the event handled last
    animating,       \* the CSS transform transitions of .section and .page
    mdFiles,         \* Markdown mode: the "section:" line of each file given
    mdOptions,       \* Markdown mode: the options of the command line
    layout,          \* config.layout (JSON mode) or --layout (Markdown mode)
    bodyClass,       \* what the class attribute of <body> holds
    lastOp           \* name of the listener or method that ran last

navVars == <<sections, sectionDots, currentSection, currentPage, totalSections>>
touchVars == <<touchStartX, touchStartY, touchEndX, touchEndY>>
vars == <<sections, sectionDots, currentSection, currentPage, totalSections,
          touchStartX, touchStartY, touchEndX, touchEndY, thrown,
          defaultPrevented, animating, mdFiles, mdOptions, layout, bodyClass,
          lastOp>>

\* the controller object and the elements it reaches, as one value
This ==
    [sections       |-> sections,
     sectionDots    |-> sectionDots,
     currentSection |-> currentSection,
     currentPage    |-> currentPage,
     totalSections  |-> totalSections,
     touchStartX    |-> touchStartX,
     touchStartY    |-> touchStartY,
     touchEndX      |-> touchEndX,
     touchEndY      |-> touchEndY,
     thrown         |-> thrown,
     defaultPrevented |-> defaultPrevented,
     animating      |-> animating]

Assigns(st) ==
    /\ sections' = st.sections
    /\ sectionDots' = st.sectionDots
    /\ currentSection' = st.currentSection
    /\ currentPage' = st.currentPage
    /\ totalSections' = st.totalSections
    /\ touchStartX' = st.touchStartX
    /\ touchStartY' = st.touchStartY
    /\ touchEndX' = st.touchEndX
    /\ touchEndY' = st.touchEndY
    /\ thrown' = st.thrown
    /\ defaultPrevented' = st.defaultPrevented
    /\ animating' = st.animating

\* a listener or a method leaves the controller as st: the command line
\* and the <body> tag are not its to change
Becomes(st) ==
    /\ Assigns(st)
    /\ UNCHANGED <<mdFiles, mdOptions, layout, bodyClass>>

\* pages.length for the .page elements of section s
pageCountOf(st, s) == Cardinality(DOMAIN st.sections[s].pages)

(* ------------------------ controller methods --------------------------- *)

minSwipeDistance == 50

\* reflag without the `else if (index < target)` branch
reflag_NoPrev(cl, index, target) ==
    LET cleared == cl \ {"active", "prev"} IN
    IF index = target THEN cleared \cup {"active"} ELSE cleared

\* body of the forEach over sections or pages:
\*   classList.remove('active', 'prev');
\*   if (index === target) add 'active'; else if (index < target) add 'prev'
reflag(cl, index, target) ==
    LET cleared == cl \ {"active", "prev"} IN
    IF index = target THEN cleared \cup {"active"}
    ELSE IF index < target THEN cleared \cup {"prev"}
    ELSE cleared

\* body of the forEach over indicator dots:
\*   if (index === target) classList.add('active'); else classList.remove('active')
dotflag(cl, index, target) ==
    IF index = target THEN cl \cup {"active"} ELSE cl \ {"active"}

\* this.sections[this.currentSection] is undefined outside the list, and
\* the querySelector call on it throws a TypeError
HasCurrentSectionElement(st) == st.currentSection \in DOMAIN st.sections

updatePageIndicators(st) ==
    IF ~HasCurrentSectionElement(st) THEN [st EXCEPT !.thrown = TRUE]
    ELSE [st EXCEPT !.sections[st.currentSection].pageDots =
            [p \in DOMAIN @ |-> dotflag(@[p], p, st.currentPage)]]

updateIndicators(st) ==
    [st EXCEPT !.sectionDots =
        [i \in DOMAIN @ |-> dotflag(@[i], i, st.currentSection)]]

updatePages(st) ==
    IF ~HasCurrentSectionElement(st) THEN [st EXCEPT !.thrown = TRUE]
    ELSE updatePageIndicators(
           [st EXCEPT !.sections[st.currentSection].pages =
               [p \in DOMAIN @ |-> reflag(@[p], p, st.currentPage)]])

\* goToSection without `this.currentPage = 0`
goToSection_KeepPage(st, sectionIndex) ==
    IF sectionIndex >= 0 /\ sectionIndex < st.totalSections
    THEN updatePages(updateIndicators(
           [st EXCEPT
               !.sections = [s \in DOMAIN @ |->
                   [@[s] EXCEPT !.classList = reflag(@, s, sectionIndex)]],
               !.currentSection = sectionIndex]))
    ELSE st

\* goToSection with the upper range check written `<=`
goToSection_InclusiveBound(st, sectionIndex) ==
    IF sectionIndex >= 0 /\ sectionIndex <= st.totalSections
    THEN updatePages(updateIndicators(
           [st EXCEPT
               !.sections = [s \in DOMAIN @ |->
                   [@[s] EXCEPT !.classList = reflag(@, s, sectionIndex)]],
               !.currentSection = sectionIndex,
               !.currentPage = 0]))
    ELSE st

\* goToSection that returns to the page the target section was left at
\* (the page still flagged "active" there) instead of page 0
goToSection_RememberPage(st, sectionIndex) ==
    IF sectionIndex >= 0 /\ sectionIndex < st.totalSections
    THEN LET left == {p \in DOMAIN st.sections[sectionIndex].pages :
                         "active" \in st.sections[sectionIndex].pages[p]}
         IN updatePages(updateIndicators(
              [st EXCEPT
                  !.sections = [s \in DOMAIN @ |->
                      [@[s] EXCEPT !.classList = reflag(@, s, sectionIndex)]],
                  !.currentSection = sectionIndex,
                  !.currentPage = IF left = {} THEN 0
                                  ELSE CHOOSE p \in left : TRUE]))
    ELSE st

\* goToSection that returns at once when the index is the current section
goToSection_SkipCurrent(st, sectionIndex) ==
    IF sectionIndex = st.currentSection THEN st
    ELSE IF sectionIndex >= 0 /\ sectionIndex < st.totalSections
    THEN updatePages(updateIndicators(
           [st EXCEPT
               !.sections = [s \in DOMAIN @ |->
                   [@[s] EXCEPT !.classList = reflag(@, s, sectionIndex)]],
               !.currentSection = sectionIndex,
               !.currentPage = 0]))
    ELSE st

\* goToSection that flags the pages and page indicators of every section
\* for page 0, not only those of the target section
goToSection_ResetEverySection(st, sectionIndex) ==
    IF sectionIndex >= 0 /\ sectionIndex < st.totalSections
    THEN updatePages(updateIndicators(
           [st EXCEPT
               !.sections = [s \in DOMAIN @ |->
                   [@[s] EXCEPT
                       !.classList = reflag(@, s, sectionIndex),
                       !.pages = [p \in DOMAIN @ |-> reflag(@[p], p, 0)],
                       !.pageDots = [p \in DOMAIN @ |-> dotflag(@[p], p, 0)]]],
               !.currentSection = sectionIndex,
               !.currentPage = 0]))
    ELSE st

goToSection(st, sectionIndex) ==
    IF sectionIndex >= 0 /\ sectionIndex < st.totalSections
    THEN updatePages(updateIndicators(
           [st EXCEPT
               !.sections = [s \in DOMAIN @ |->
                   [@[s] EXCEPT !.classList = reflag(@, s, sectionIndex)]],
               !.currentSection = sectionIndex,
               !.currentPage = 0]))
    ELSE st

\* nextSection that wraps from the last section to the cover
nextSection_Wrap(st) ==
    IF st.currentSection < st.totalSections - 1
    THEN goToSection(st, st.currentSection + 1)
    ELSE goToSection(st, 0)

nextSection(st) ==
    IF st.currentSection < st.totalSections - 1
    THEN goToSection(st, st.currentSection + 1)
    ELSE st

\* prevSection that steps back over two sections
prevSection_SkipOne(st) ==
    IF st.currentSection > 0
    THEN goToSection(st, IF st.currentSection > 1 THEN st.currentSection - 2 ELSE 0)
    ELSE st

prevSection(st) ==
    IF st.currentSection > 0
    THEN goToSection(st, st.currentSection - 1)
    ELSE st

\* goToPage without `page.classList.remove('active', 'prev')`
goToPage_NoRemove(st, pageIndex) ==
    IF ~HasCurrentSectionElement(st) THEN [st EXCEPT !.thrown = TRUE]
    ELSE IF pageIndex >= 0 /\ pageIndex < pageCountOf(st, st.currentSection)
    THEN updatePageIndicators(
           [st EXCEPT
               !.sections[st.currentSection].pages =
                   [p \in DOMAIN @ |-> @[p] \cup reflag(@[p], p, pageIndex)],
               !.currentPage = pageIndex])
    ELSE st

\* goToPage whose range check uses the largest page count of the document
\* instead of the page count of the current section
goToPage_AnySectionRange(st, pageIndex) ==
    IF ~HasCurrentSectionElement(st) THEN [st EXCEPT !.thrown = TRUE]
    ELSE IF pageIndex >= 0
            /\ \E s \in DOMAIN st.sections : pageIndex < pageCountOf(st, s)
    THEN updatePageIndicators(
           [st EXCEPT
               !.sections[st.currentSection].pages =
                   [p \in DOMAIN @ |-> reflag(@[p], p, pageIndex)],
               !.currentPage = pageIndex])
    ELSE st

\* goToPage that toggles "active" on the target page instead of adding it
goToPage_TogglesActive(st, pageIndex) ==
    IF ~HasCurrentSectionElement(st) THEN [st EXCEPT !.thrown = TRUE]
    ELSE IF pageIndex >= 0 /\ pageIndex < pageCountOf(st, st.currentSection)
    THEN updatePageIndicators(
           [st EXCEPT
               !.sections[st.currentSection].pages =
                   [p \in DOMAIN @ |->
                       IF p # pageIndex THEN reflag(@[p], p, pageIndex)
                       ELSE IF "active" \in @[p] THEN @[p] \ {"active", "prev"}
                       ELSE (@[p] \ {"prev"}) \cup {"active"}],
               !.currentPage = pageIndex])
    ELSE st

\* goToPage that removes "active" only, and leaves "prev" where it is
goToPage_KeepsPrev(st, pageIndex) ==
    IF ~HasCurrentSectionElement(st) THEN [st EXCEPT !.thrown = TRUE]
    ELSE IF pageIndex >= 0 /\ pageIndex < pageCountOf(st, st.currentSection)
    THEN updatePageIndicators(
           [st EXCEPT
               !.sections[st.currentSection].pages =
                   [p \in DOMAIN @ |->
                       reflag(@[p], p, pageIndex) \cup (@[p] \cap {"prev"})],
               !.currentPage = pageIndex])
    ELSE st

goToPage(st, pageIndex) ==
    IF ~HasCurrentSectionElement(st) THEN [st EXCEPT !.thrown = TRUE]
    ELSE IF pageIndex >= 0 /\ pageIndex < pageCountOf(st, st.currentSection)
    THEN updatePageIndicators(
           [st EXCEPT
               !.sections[st.currentSection].pages =
                   [p \in DOMAIN @ |-> reflag(@[p], p, pageIndex)],
               !.currentPage = pageIndex])
    ELSE st

\* nextPage that moves on to the next section from the last page
nextPage_Spill(st) ==
    IF ~HasCurrentSectionElement(st) THEN [st EXCEPT !.thrown = TRUE]
    ELSE IF st.currentPage < pageCountOf(st, st.currentSection) - 1
    THEN goToPage(st, st.currentPage + 1)
    ELSE nextSection(st)

nextPage(st) ==
    IF ~HasCurrentSectionElement(st) THEN [st EXCEPT !.thrown = TRUE]
    ELSE IF st.currentPage < pageCountOf(st, st.currentSection) - 1
    THEN goToPage(st, st.currentPage + 1)
    ELSE st

prevPage(st) ==
    IF st.currentPage > 0
    THEN goToPage(st, st.currentPage - 1)
    ELSE st

Abs(n) == IF n < 0 THEN -n ELSE n

Max(a, b) == IF a >= b THEN a ELSE b

\* handleSwipe without the early return below minSwipeDistance
handleSwipe_NoThreshold(st) ==
    LET deltaX == st.touchEndX - st.touchStartX
        deltaY == st.touchEndY - st.touchStartY
        absDeltaX == Abs(deltaX)
        absDeltaY == Abs(deltaY)
    IN  IF absDeltaY > absDeltaX
        THEN (IF deltaY < 0 THEN nextSection(st) ELSE prevSection(st))
        ELSE (IF deltaX < 0 THEN nextPage(st) ELSE prevPage(st))

\* handleSwipe with the two vertical directions exchanged
handleSwipe_InvertedVertical(st) ==
    LET deltaX == st.touchEndX - st.touchStartX
        deltaY == st.touchEndY - st.touchStartY
        absDeltaX == Abs(deltaX)
        absDeltaY == Abs(deltaY)
    IN  IF Max(absDeltaX, absDeltaY) < minSwipeDistance THEN st
        ELSE IF absDeltaY > absDeltaX
             THEN (IF deltaY < 0 THEN prevSection(st) ELSE nextSection(st))
             ELSE (IF deltaX < 0 THEN nextPage(st) ELSE prevPage(st))

\* handleSwipe with the threshold comparison written `<=`
handleSwipe_ExclusiveThreshold(st) ==
    LET deltaX == st.touchEndX - st.touchStartX
        deltaY == st.touchEndY - st.touchStartY
        absDeltaX == Abs(deltaX)
        absDeltaY == Abs(deltaY)
    IN  IF Max(absDeltaX, absDeltaY) <= minSwipeDistance THEN st
        ELSE IF absDeltaY > absDeltaX
             THEN (IF deltaY < 0 THEN nextSection(st) ELSE prevSection(st))
             ELSE (IF deltaX < 0 THEN nextPage(st) ELSE prevPage(st))

\* handleSwipe with the axis comparison written `>=`
handleSwipe_DiagonalVertical(st) ==
    LET deltaX == st.touchEndX - st.touchStartX
        deltaY == st.touchEndY - st.touchStartY
        absDeltaX == Abs(deltaX)
        absDeltaY == Abs(deltaY)
    IN  IF Max(absDeltaX, absDeltaY) < minSwipeDistance THEN st
        ELSE IF absDeltaY >= absDeltaX
             THEN (IF deltaY < 0 THEN nextSection(st) ELSE prevSection(st))
             ELSE (IF deltaX < 0 THEN nextPage(st) ELSE prevPage(st))

handleSwipe(st) ==
    LET deltaX == st.touchEndX - st.touchStartX
        deltaY == st.touchEndY - st.touchStartY
        absDeltaX == Abs(deltaX)
        absDeltaY == Abs(deltaY)
    IN  IF Max(absDeltaX, absDeltaY) < minSwipeDistance THEN st
        ELSE IF absDeltaY > absDeltaX
             THEN (IF deltaY < 0 THEN nextSection(st) ELSE prevSection(st))
             ELSE (IF deltaX < 0 THEN nextPage(st) ELSE prevPage(st))

\* handleTouchStart that classifies the gesture as handleTouchEnd does
handleTouchStart_Classifies(st, pt) ==
    handleSwipe([st EXCEPT !.touchStartX = pt[1], !.touchStartY = pt[2]])

handleTouchStart(st, pt) ==
    [st EXCEPT !.touchStartX = pt[1], !.touchStartY = pt[2]]

\* handleTouchEnd that forgets the start coordinates once it has classified
handleTouchEnd_ForgetsStart(st, pt) ==
    [handleSwipe([st EXCEPT !.touchEndX = pt[1], !.touchEndY = pt[2]])
        EXCEPT !.touchStartX = 0, !.touchStartY = 0]

handleTouchEnd(st, pt) ==
    handleSwipe([st EXCEPT !.touchEndX = pt[1], !.touchEndY = pt[2]])

\* e.preventDefault()
preventDefault(st) == [st EXCEPT !.defaultPrevented = TRUE]

\* handleKeyDown with the ArrowUp and ArrowDown cases exchanged
handleKeyDown_UpDownSwapped(st, key) ==
    CASE key = "ArrowUp"    -> nextSection(preventDefault(st))
      [] key = "ArrowDown"  -> prevSection(preventDefault(st))
      [] key = "ArrowLeft"  -> prevPage(preventDefault(st))
      [] key = "ArrowRight" -> nextPage(preventDefault(st))
      [] OTHER              -> st

\* handleKeyDown that calls e.preventDefault() only when the key moved
\* the view
handleKeyDown_PreventWhenMoved(st, key) ==
    LET moved == CASE key = "ArrowUp"    -> prevSection(st)
                   [] key = "ArrowDown"  -> nextSection(st)
                   [] key = "ArrowLeft"  -> prevPage(st)
                   [] key = "ArrowRight" -> nextPage(st)
                   [] OTHER              -> st
    IN IF moved = st THEN st ELSE preventDefault(moved)

\* handleKeyDown whose ArrowDown case calls nextSection twice
handleKeyDown_DownTwice(st, key) ==
    CASE key = "ArrowUp"    -> prevSection(preventDefault(st))
      [] key = "ArrowDown"  -> nextSection(nextSection(preventDefault(st)))
      [] key = "ArrowLeft"  -> prevPage(preventDefault(st))
      [] key = "ArrowRight" -> nextPage(preventDefault(st))
      [] OTHER              -> st

handleKeyDown(st, key) ==
    CASE key = "ArrowUp"    -> prevSection(preventDefault(st))
      [] key = "ArrowDown"  -> nextSection(preventDefault(st))
      [] key = "ArrowLeft"  -> prevPage(preventDefault(st))
      [] key = "ArrowRight" -> nextPage(preventDefault(st))
      [] OTHER              -> st

\* a click listener that counts the section dots from 1
sectionDotClick_OneBased(st, index) == goToSection(st, index + 1)

\* the click listener installed on the section dot at position index
sectionDotClick(st, index) == goToSection(st, index)

(* --------------------------- specification ----------------------------- *)

\* new MagazineNavigator() on DOMContentLoaded : constructor, then init()
constructor(doc) ==
    updateIndicators(
        [sections       |-> doc.sections,
         sectionDots    |-> doc.sectionDots,
         currentSection |-> 0,
         currentPage    |-> 0,
         totalSections  |-> Cardinality(DOMAIN doc.sections),
         touchStartX    |-> 0,
         touchStartY    |-> 0,
         touchEndX      |-> 0,
         touchEndY      |-> 0,
         thrown         |-> FALSE,
         defaultPrevented |-> FALSE,
         animating      |-> "rest"])

\* the document generated from cfg has loaded
Loaded(cfg) ==
        LET st == constructor(generateMagazine(cfg)) IN
        /\ sections = st.sections
        /\ sectionDots = st.sectionDots
        /\ currentSection = st.currentSection
        /\ currentPage = st.currentPage
        /\ totalSections = st.totalSections
        /\ touchStartX = st.touchStartX
        /\ touchStartY = st.touchStartY
        /\ touchEndX = st.touchEndX
        /\ touchEndY = st.touchEndY
        /\ thrown = st.thrown
        /\ defaultPrevented = st.defaultPrevented
        /\ animating = st.animating
        /\ lastOp = "load"

\* the controller as a listener or a caller finds it: the event it is
\* handed is a fresh one, on which preventDefault was not called yet
Fresh == [This EXCEPT !.defaultPrevented = FALSE]

\* JSON mode: no Markdown file is read
JSONMode ==
    /\ mdFiles = << >>
    /\ mdOptions = [section |-> << >>]

\* a config with a plain title and no layout
PlainHead ==
    /\ layout = undefined
    /\ bodyClass = bodyClassOf(replacePlaceholders(<<"T">>, layout))

Init == JSONMode /\ PlainHead /\ \E cfg \in Configs : Loaded(cfg)

\* load of a document whose config may name a flag as a background class
InitStyled == JSONMode /\ PlainHead /\ \E cfg \in StyledConfigs : Loaded(cfg)

TouchStart ==
    \E pt \in Points :
        /\ Becomes(handleTouchStart(Fresh, pt))
        /\ lastOp' = "touchstart"

TouchEnd ==
    \E pt \in Points :
        /\ Becomes(handleTouchEnd(Fresh, pt))
        /\ lastOp' = "touchend"

KeyDown ==
    \E key \in Keys :
        /\ Becomes(handleKeyDown(Fresh, key))
        /\ lastOp' = "keydown"

Click ==
    \E index \in DOMAIN sectionDots :
        /\ Becomes(sectionDotClick(Fresh, index))
        /\ lastOp' = "click"

CallGoToSection ==
    \E i \in SectionArgs :
        /\ Becomes(goToSection(Fresh, i))
        /\ lastOp' = "goToSection"

CallGoToPage ==
    \E j \in PageArgs :
        /\ Becomes(goToPage(Fresh, j))
        /\ lastOp' = "goToPage"

CallNextSection ==
    /\ Becomes(nextSection(Fresh))
    /\ lastOp' = "nextSection"

CallPrevSection ==
    /\ Becomes(prevSection(Fresh))
    /\ lastOp' = "prevSection"

CallNextPage ==
    /\ Becomes(nextPage(Fresh))
    /\ lastOp' = "nextPage"

CallPrevPage ==
    /\ Becomes(prevPage(Fresh))
    /\ lastOp' = "prevPage"

Next ==
    \/ TouchStart
    \/ TouchEnd
    \/ KeyDown
    \/ Click
    \/ CallGoToSection
    \/ CallGoToPage
    \/ CallNextSection
    \/ CallPrevSection
    \/ CallNextPage
    \/ CallPrevPage

Spec == Init /\ [][Next]_vars

SpecStyled == InitStyled /\ [][Next]_vars

\* The document as it is shipped: the controller is reached through its
\* four listeners only (the instance made on DOMContentLoaded is kept in
\* no variable).
NextInput ==
    \/ TouchStart
    \/ TouchEnd
    \/ KeyDown
    \/ Click

SpecInput == Init /\ [][NextInput]_vars

\* The controller as an object: its methods called one by one.
NextMethods ==
    \/ CallGoToSection
    \/ CallGoToPage
    \/ CallNextSection
    \/ CallPrevSection
    \/ CallNextPage
    \/ CallPrevPage

SpecMethods == Init /\ [][NextMethods]_vars

\* the keyboard and the section indicators alone
NextKeysAndClicks ==
    \/ KeyDown
    \/ Click

SpecKeysAndClicks == Init /\ [][NextKeysAndClicks]_vars

\* the touch listeners alone
NextTouch ==
    \/ TouchStart
    \/ TouchEnd

SpecTouch == Init /\ [][NextTouch]_vars

(* ------------------------- layouts and titles -------------------------- *)

\* load of a document whose config gives a title and may give a layout
InitLayout ==
    /\ JSONMode
    /\ \E l \in LayoutInputs : \E title \in Titles :
           /\ layout = l
           /\ bodyClass = bodyClassOf(replacePlaceholders(title, l))
    /\ \E cfg \in Configs : Loaded(cfg)

\* the keyboard in such a document
NextLayout == KeyDown

SpecLayout == InitLayout /\ [][NextLayout]_vars

(* ----------------------------- Markdown mode -------------------------- *)

\* node magazine-generator.js --md <files> [--section <name>] : the
\* command line is parsed and no document exists yet
InitMarkdown ==
    /\ \E cl \in CommandLines :
           /\ mdFiles = cl.files
           /\ mdOptions = [section |-> cl.section]
    /\ layout = undefined
    /\ bodyClass = bodyClassOf(template)
    /\ sections = << >>
    /\ sectionDots = << >>
    /\ currentSection = 0
    /\ currentPage = 0
    /\ totalSections = 0
    /\ touchStartX = 0
    /\ touchStartY = 0
    /\ touchEndX = 0
    /\ touchEndY = 0
    /\ thrown = FALSE
    /\ defaultPrevented = FALSE
    /\ animating = "rest"
    /\ lastOp = "cli"

\* buildConfigFromMarkdown, build, and the load of the document written
BuildFromMarkdown ==
    /\ lastOp = "cli"
    /\ LET config == buildConfigFromMarkdown(mdFiles, mdOptions) IN
       IF config.thrown
       THEN /\ thrown' = TRUE
            /\ lastOp' = "error"
            /\ UNCHANGED <<sections, sectionDots, currentSection,
                           currentPage, totalSections, touchStartX,
                           touchStartY, touchEndX, touchEndY,
                           defaultPrevented, animating, mdFiles, mdOptions,
                           layout, bodyClass>>
       ELSE /\ Assigns(constructor(generateMagazine(
                                       backgroundClasses(config.sections))))
            /\ bodyClass' = bodyClassOf(replacePlaceholders(
                                <<"T">>, normalizeLayout(layout)))
            /\ UNCHANGED <<mdFiles, mdOptions, layout>>
            /\ lastOp' = "load"

\* Markdown mode, and the keyboard in the document it wrote
NextMarkdown ==
    \/ BuildFromMarkdown
    \/ lastOp # "cli" /\ KeyDown

SpecMarkdown == InitMarkdown /\ [][NextMarkdown]_vars

(* ----------------- input events and running transitions --------------- *)

\* States of the transform transitions that a change of class starts on a
\* .section (0.6 s) or a .page (0.4 s): none is running, one is running,
\* or one was started while another was still running.  Spec and
\* SpecStyled observe the document with its transitions left out and keep
\* "rest"; SpecEvents follows them.
Transitions == {"rest", "running", "overlapped"}

\* screen positions of the touches of SpecEvents: displacements of 0 and
\* 50 along x, of 60 along y, and of 60 along both between them
EventPoints == {<<0, 0>>, <<50, 0>>, <<-10, 60>>}

\* the input events the listeners of addEventListeners are registered for
InputEvents(st) ==
    [type : {"touchstart", "touchend"}, point : EventPoints]
        \cup [type : {"keydown"}, key : Keys]
        \cup [type : {"click"}, index : DOMAIN st.sectionDots]

\* a dispatch that drops the events arriving while a transition runs
dispatch_WhileAtRest(st, e) ==
    IF st.animating # "rest"
    THEN st
    ELSE CASE e.type = "touchstart" -> handleTouchStart(st, e.point)
           [] e.type = "touchend"   -> handleTouchEnd(st, e.point)
           [] e.type = "keydown"    -> handleKeyDown(st, e.key)
           [] e.type = "click"      -> sectionDotClick(st, e.index)

\* the listener registered for e, run to completion
dispatch(st, e) ==
    CASE e.type = "touchstart" -> handleTouchStart(st, e.point)
      [] e.type = "touchend"   -> handleTouchEnd(st, e.point)
      [] e.type = "keydown"    -> handleKeyDown(st, e.key)
      [] e.type = "click"      -> sectionDotClick(st, e.index)

\* the browser after a listener took the document from old to new: a
\* changed class list starts a transition
rendered(old, new) ==
    IF new.sections = old.sections
    THEN new
    ELSE [new EXCEPT !.animating =
              IF old.animating = "rest" THEN "running" ELSE "overlapped"]

\* an input event arrives and its listener runs
Input ==
    \E e \in InputEvents(This) :
        /\ Becomes(rendered(Fresh, dispatch(Fresh, e)))
        /\ lastOp' = e.type

\* the running transitions come to their end
TransitionEnd ==
    /\ animating # "rest"
    /\ animating' = "rest"
    /\ UNCHANGED <<sections, sectionDots, currentSection, currentPage,
                   totalSections, touchStartX, touchStartY, touchEndX,
                   touchEndY, thrown, defaultPrevented, mdFiles,
                   mdOptions, layout, bodyClass, lastOp>>

NextEvents ==
    \/ Input
    \/ TransitionEnd

SpecEvents == Init /\ [][NextEvents]_vars

(* ------------------------------ claims --------------------------------- *)

\* the elements of a list of class lists that carry flag f
Carrying(list, f) == {k \in DOMAIN list : f \in list[k]}

sectionClassLists == [s \in DOMAIN sections |-> sections[s].classList]

\* every section element holds at least one page element
AllSectionsNonEmpty == \A s \in DOMAIN sections : pageCountOf(This, s) >= 1

\* C1: in every reachable state 0 <= currentSection < totalSections and
\* 0 <= currentPage < pageCountOf(currentSection).
C1_CoordinatesInRange ==
    /\ 0 <= currentSection /\ currentSection < totalSections
    /\ 0 <= currentPage /\ currentPage < pageCountOf(This, currentSection)

\* C1 restricted to documents all of whose sections hold a page
C1_InRangeOnNonEmptySections == AllSectionsNonEmpty => C1_CoordinatesInRange

\* C2: in every reachable state exactly one section carries "active", the
\* one at currentSection, and exactly one page of that section carries
\* "active", the one at currentPage.
C2_ExactlyOneActive ==
    /\ Carrying(sectionClassLists, "active") = {currentSection}
    /\ currentSection \in DOMAIN sections
    /\ Carrying(sections[currentSection].pages, "active") = {currentPage}

\* C2 restricted to documents all of whose sections hold a page
C2_OneActiveOnNonEmptySections == AllSectionsNonEmpty => C2_ExactlyOneActive

\* C3: in every reachable state every section before currentSection carries
\* "prev", every section after it carries neither flag, and within the
\* current section every page before currentPage carries "prev" and every
\* page after it carries neither flag.
C3_PrevBeforeNoneAfter ==
    /\ \A s \in DOMAIN sections :
          /\ s < currentSection => "prev" \in sections[s].classList
          /\ s > currentSection => sections[s].classList \cap Flags = {}
    /\ \A p \in DOMAIN sections[currentSection].pages :
          /\ p < currentPage => "prev" \in sections[currentSection].pages[p]
          /\ p > currentPage => sections[currentSection].pages[p] \cap Flags = {}

\* a middle section is shown, at its second page: a section before it and a
\* page before the current one, and a section after it
C3_Witness ==
    /\ totalSections = 3
    /\ currentSection = 1
    /\ currentPage = 1
    /\ sections[0].classList = {"prev"}
    /\ sections[2].classList = {}
    /\ sections[1].pages[0] = {"prev"}

\* the flag among "active" / "prev" that position index must carry when
\* target is shown: exactly "prev" before, exactly "active" at, none after
FlagsAt(index, target) ==
    IF index < target THEN {"prev"}
    ELSE IF index = target THEN {"active"}
    ELSE {}

ValidSections == 0 .. (totalSections - 1)

ValidPages == 0 .. (pageCountOf(This, currentSection) - 1)

\* C4: for every i with 0 <= i < totalSections and from every reachable
\* state, goToSection(i) ends with currentSection = i and currentPage = 0,
\* sections before i flagged "prev", section i "active", sections after i
\* carrying neither flag.
C4_GoToSectionValid ==
    \A i \in ValidSections :
        LET st == goToSection(This, i) IN
        /\ st.currentSection = i
        /\ st.currentPage = 0
        /\ \A s \in DOMAIN st.sections :
              st.sections[s].classList \cap Flags = FlagsAt(s, i)

\* goToSection ran last and the last section is shown while an earlier
\* section is still left at its second page: the call moved there
C4_Witness ==
    /\ lastOp = "goToSection"
    /\ totalSections = 3
    /\ currentSection = 2
    /\ currentPage = 0
    /\ sections[0].classList = {"prev"}
    /\ sections[1].classList = {"prev"}
    /\ pageCountOf(This, 1) = 2
    /\ sections[1].pages[1] = {"active"}

\* C5: for every integer i outside [0, totalSections) and from every
\* reachable state, goToSection(i) leaves the whole state unchanged
\* (coordinates, section flags, page flags, indicator flags) and raises
\* no error.
C5_GoToSectionOutOfRange ==
    \A i \in SectionArgs \ ValidSections :
        /\ goToSection(This, i) = This
        /\ ~goToSection(This, i).thrown

\* goToSection ran last and the second page is still shown: a call with a
\* valid index would have shown page 0, so the index was out of range
C5_Witness ==
    /\ lastOp = "goToSection"
    /\ currentSection = 1
    /\ currentPage = 1
    /\ ~thrown

\* C6: in every step in which currentSection changes, currentPage is 0 in
\* the successor state, whatever page was shown before.
C6_SectionChangeResetsPage ==
    [][currentSection' # currentSection => currentPage' = 0]_vars

\* prevSection ran last and section 1 is shown, so the step came from
\* section 2; section 2 still has its second page flagged "active", so it
\* was left at page 1; and page 0 is shown now
C6_Witness ==
    /\ lastOp = "prevSection"
    /\ totalSections = 3
    /\ currentSection = 1
    /\ currentPage = 0
    /\ pageCountOf(This, 2) = 2
    /\ sections[2].pages[1] = {"active"}
    /\ sections[2].classList = {}

\* C7: nextSection() at currentSection = totalSections - 1 and
\* prevSection() at currentSection = 0 leave the whole state unchanged.
C7_NoSectionWraparound ==
    /\ currentSection = totalSections - 1 => nextSection(This) = This
    /\ currentSection = 0 => prevSection(This) = This

\* nextSection ran last at the last of three sections and the second page
\* is shown: the call moved nowhere, or page 0 would be shown
C7_Witness ==
    /\ lastOp = "nextSection"
    /\ totalSections = 3
    /\ currentSection = totalSections - 1
    /\ currentPage = 1

\* C8: nextPage() at the last page of the current section and prevPage()
\* at page 0 leave the whole state unchanged, and neither ever changes
\* currentSection.
C8_NoPageWrapOrSpill ==
    /\ currentPage = pageCountOf(This, currentSection) - 1
          => nextPage(This) = This
    /\ currentPage = 0 => prevPage(This) = This
    /\ nextPage(This).currentSection = currentSection
    /\ prevPage(This).currentSection = currentSection

\* nextPage ran last in a middle section that has a single page, and page
\* 0 of that section is still shown: the call was made at the last page
\* and moved neither to a page 1 nor to the section after it
C8_Witness ==
    /\ lastOp = "nextPage"
    /\ totalSections = 3
    /\ currentSection = 1
    /\ pageCountOf(This, 1) = 1
    /\ currentPage = 0
    /\ sections[1].pages[0] = {"active"}

\* C9: for every j with 0 <= j < pageCount(currentSection), goToPage(j)
\* sets currentPage = j, flags the pages of the current section before j
\* "prev", page j "active" and the pages after j neither, and leaves
\* currentSection, all section flags and all section indicators unchanged.
C9_GoToPageValid ==
    \A j \in ValidPages :
        LET st == goToPage(This, j) IN
        /\ st.currentPage = j
        /\ \A p \in DOMAIN st.sections[currentSection].pages :
              st.sections[currentSection].pages[p] \cap Flags = FlagsAt(p, j)
        /\ st.currentSection = currentSection
        /\ \A s \in DOMAIN sections :
              st.sections[s].classList = sections[s].classList
        /\ st.sectionDots = sectionDots

\* goToPage ran last and the second page of a section is shown
C9_Witness ==
    /\ lastOp = "goToPage"
    /\ currentSection = 1
    /\ currentPage = 1
    /\ sections[1].pages[0] = {"prev"}
    /\ sections[1].pages[1] = {"active"}

\* C10: for every integer j outside [0, pageCount(currentSection)),
\* goToPage(j) leaves the whole state unchanged and raises no error; the
\* range is the page count of the current section, not of another section.
C10_GoToPageOutOfRange ==
    \A j \in PageArgs \ ValidPages :
        /\ goToPage(This, j) = This
        /\ ~goToPage(This, j).thrown

\* goToPage ran last in a section without pages, where every index is out
\* of range, while another section has two pages, so that indices 0 and 1
\* are in that other section's range
C10_Witness ==
    /\ lastOp = "goToPage"
    /\ totalSections = 3
    /\ currentSection = 1
    /\ pageCountOf(This, 1) = 0
    /\ pageCountOf(This, 2) = 2
    /\ currentPage = 0
    /\ ~thrown

\* C11: in every reachable state the section indicators flagged "active"
\* are exactly the one at index currentSection, and within the current
\* section the page indicators flagged "active" are exactly the one at
\* index currentPage.
C11_IndicatorsInSync ==
    /\ Carrying(sectionDots, "active") = {currentSection}
    /\ Carrying(sections[currentSection].pageDots, "active") = {currentPage}

\* C11 restricted to documents all of whose sections hold a page
C11_InSyncOnNonEmptySections == AllSectionsNonEmpty => C11_IndicatorsInSync

\* C12: in every reachable state no section and no page, of the current
\* section or of any other, carries both "active" and "prev".
C12_FlagsExclusive ==
    \A s \in DOMAIN sections :
        /\ ~(Flags \subseteq sections[s].classList)
        /\ \A p \in DOMAIN sections[s].pages :
              ~(Flags \subseteq sections[s].pages[p])

\* C13: in every reachable state every section, current or not, has
\* exactly one page flagged "active" (its other pages being "prev" or
\* unflagged).
C13_OneActivePagePerSection ==
    \A s \in DOMAIN sections :
        Cardinality(Carrying(sections[s].pages, "active")) = 1

\* C13 restricted to documents all of whose sections hold a page
C13_OneActiveOnNonEmptySections ==
    AllSectionsNonEmpty => C13_OneActivePagePerSection

(* gestures: the displacement from the recorded start to an end point pt *)

DeltaX(pt) == pt[1] - touchStartX

DeltaY(pt) == pt[2] - touchStartY

\* the larger of the two axis displacements
Larger(pt) ==
    IF Abs(DeltaX(pt)) >= Abs(DeltaY(pt)) THEN Abs(DeltaX(pt))
    ELSE Abs(DeltaY(pt))

\* the controller once the end point of the gesture is recorded
Sampled(pt) == [This EXCEPT !.touchEndX = pt[1], !.touchEndY = pt[2]]

\* st shows the same section and page as now, with every section, page and
\* indicator flag as now
SameNavigation(st) ==
    /\ st.currentSection = currentSection
    /\ st.currentPage = currentPage
    /\ st.sections = sections
    /\ st.sectionDots = sectionDots

\* C14: a gesture whose larger axis displacement is below the minimum
\* swipe distance (50) produces no transition: the touch-end leaves
\* currentSection, currentPage and every flag unchanged, for every
\* start/end pair and every reachable state.
C14_SubThresholdNoTransition ==
    \A pt \in Points :
        Larger(pt) < 50 => SameNavigation(handleTouchEnd(This, pt))

\* a touch-end ran last on a gesture of 49 to the right, on the second
\* page of a two-page section; a previous-page step would have left it
C14_Witness ==
    /\ lastOp = "touchend"
    /\ touchStartX = 0 /\ touchStartY = 0
    /\ touchEndX = 49 /\ touchEndY = 0
    /\ currentSection = 1
    /\ pageCountOf(This, 1) = 2
    /\ currentPage = 1

\* C15: for every gesture at or above the threshold, if the vertical
\* displacement dominates a negative deltaY invokes nextSection and a
\* positive deltaY prevSection; if the horizontal displacement dominates a
\* negative deltaX invokes nextPage and a positive deltaX prevPage.
C15_GestureClassification ==
    \A pt \in Points :
        Larger(pt) >= 50 =>
            LET st == handleTouchEnd(This, pt)
                dx == DeltaX(pt)
                dy == DeltaY(pt)
            IN /\ (Abs(dy) > Abs(dx) /\ dy < 0) => st = nextSection(Sampled(pt))
               /\ (Abs(dy) > Abs(dx) /\ dy > 0) => st = prevSection(Sampled(pt))
               /\ (Abs(dx) > Abs(dy) /\ dx < 0) => st = nextPage(Sampled(pt))
               /\ (Abs(dx) > Abs(dy) /\ dx > 0) => st = prevPage(Sampled(pt))

\* a touch-end ran last on the gesture (-10, 60) -> (0, 0), deltaY = -60,
\* and the middle one of three sections is shown: the step came from the
\* cover, a no-op being possible at the last section only
C15_Witness ==
    /\ lastOp = "touchend"
    /\ touchStartX = -10 /\ touchStartY = 60
    /\ touchEndX = 0 /\ touchEndY = 0
    /\ totalSections = 3
    /\ currentSection = 1
    /\ currentPage = 0

\* C16: the threshold comparison is inclusive: a gesture whose larger
\* axis displacement is exactly 50 is classified and triggers the
\* corresponding transition (here a horizontal one: nextPage for a
\* negative deltaX, prevPage for a positive one), one of 49 does not.
C16_ThresholdInclusive ==
    \A pt \in Points :
        /\ (Larger(pt) = 50 /\ DeltaY(pt) = 0 /\ DeltaX(pt) < 0)
              => handleTouchEnd(This, pt) = nextPage(Sampled(pt))
        /\ (Larger(pt) = 50 /\ DeltaY(pt) = 0 /\ DeltaX(pt) > 0)
              => handleTouchEnd(This, pt) = prevPage(Sampled(pt))
        /\ Larger(pt) = 49 => SameNavigation(handleTouchEnd(This, pt))

\* a touch-end ran last on the gesture (50, 0) -> (0, 0), deltaX = -50,
\* and the second page of a section is shown
C16_Witness ==
    /\ lastOp = "touchend"
    /\ touchStartX = 50 /\ touchStartY = 0
    /\ touchEndX = 0 /\ touchEndY = 0
    /\ currentSection = 1
    /\ currentPage = 1
    /\ sections[1].pages[1] = {"active"}

\* st with the record of preventDefault left out
Unprevented(st) == [st EXCEPT !.defaultPrevented = FALSE]

ArrowKeys == {"ArrowUp", "ArrowDown", "ArrowLeft", "ArrowRight"}

\* C17: from every reachable state the state after a key-down of ArrowUp,
\* ArrowDown, ArrowLeft, ArrowRight equals the state after calling
\* prevSection, nextSection, prevPage, nextPage directly.
C17_KeyMapping ==
    /\ Unprevented(handleKeyDown(Fresh, "ArrowUp")) = prevSection(Fresh)
    /\ Unprevented(handleKeyDown(Fresh, "ArrowDown")) = nextSection(Fresh)
    /\ Unprevented(handleKeyDown(Fresh, "ArrowLeft")) = prevPage(Fresh)
    /\ Unprevented(handleKeyDown(Fresh, "ArrowRight")) = nextPage(Fresh)

\* a key-down of an arrow key ran last and the middle one of three
\* sections is shown, an earlier or later section having been left
C17_Witness ==
    /\ lastOp = "keydown"
    /\ defaultPrevented
    /\ totalSections = 3
    /\ currentSection = 1
    /\ currentPage = 0
    /\ sections[0].classList = {"prev"}

\* C18: for each of the four directional keys the default action is
\* suppressed on every key-down, also at a boundary where the mapped
\* operation is a no-op.
C18_DefaultPrevented ==
    \A key \in ArrowKeys : handleKeyDown(Fresh, key).defaultPrevented

\* a key-down on which preventDefault was called ran last in a document
\* that has the cover only: each of the four keys is at its boundary
C18_Witness ==
    /\ lastOp = "keydown"
    /\ defaultPrevented
    /\ totalSections = 1
    /\ currentSection = 0
    /\ currentPage = 0

\* C19: clicking the section indicator at position k of the indicator
\* list has exactly the effect of goToSection(k), from every reachable
\* state and for every k.
C19_ClickIsGoToSection ==
    \A k \in DOMAIN sectionDots :
        /\ sectionDotClick(Fresh, k) = goToSection(Fresh, k)
        /\ sectionDotClick(Fresh, k).currentSection = k

\* a click ran last and shows the last of three sections, while section 1
\* is still left at its second page
C19_Witness ==
    /\ lastOp = "click"
    /\ totalSections = 3
    /\ currentSection = 2
    /\ currentPage = 0
    /\ sectionDots[2] = {"active"}
    /\ pageCountOf(This, 1) = 2
    /\ sections[1].pages[1] = {"active"}

\* C20: at document load (currentSection, currentPage) = (0, 0), the cover
\* section is "active", no section is "prev", page 0 of every section is
\* "active", section indicator 0 is "active" and page indicator 0 of every
\* section is "active".
C20_InitialState ==
    lastOp = "load" =>
        /\ currentSection = 0
        /\ currentPage = 0
        /\ "active" \in sections[0].classList
        /\ \A s \in DOMAIN sections : "prev" \notin sections[s].classList
        /\ "active" \in sectionDots[0]
        /\ \A s \in DOMAIN sections :
              /\ 0 \in DOMAIN sections[s].pages
              /\ "active" \in sections[s].pages[0]
              /\ 0 \in DOMAIN sections[s].pageDots
              /\ "active" \in sections[s].pageDots[0]

\* C20 restricted to documents all of whose sections hold a page
C20_InitialStateOnNonEmptySections == AllSectionsNonEmpty => C20_InitialState

\* st with no transition running
AtRest(st) == [st EXCEPT !.animating = "rest"]

\* C21: input events are processed one at a time, synchronously, in
\* arrival order, with no debouncing and no dropping: from every reachable
\* state, whether or not a transition is still running, every event's
\* listener runs to completion and has the effect it has on the document
\* at rest, so a sequence of events ends in the state that applying the
\* handlers in arrival order gives.
C21_EventsAppliedLikeAtRest ==
    \A e \in InputEvents(This) :
        dispatch(Fresh, e) =
            [dispatch(AtRest(Fresh), e) EXCEPT !.animating = animating]

\* a key-down ran last, and a transition was started while another one
\* was still running: the last of three sections is shown
C21_Witness ==
    /\ animating = "overlapped"
    /\ lastOp = "keydown"
    /\ defaultPrevented
    /\ totalSections = 3
    /\ currentSection = 2
    /\ sections[1].classList = {"prev"}

\* the section and page st shows, with every section, page and indicator
\* flag
Navigation(st) ==
    <<st.currentSection, st.currentPage, st.sections, st.sectionDots>>

\* the controller with q as its recorded touch-start position
StartedAt(q) == [This EXCEPT !.touchStartX = q[1], !.touchStartY = q[2]]

\* the transition a touch-end makes once a gesture has been classified
\* does not depend on the start position the controller has recorded
C22_StartNotUsedByLaterTouchEnd ==
    lastOp = "touchend" =>
        \A pt \in Points : \A q \in Points :
            Navigation(handleTouchEnd(This, pt))
                = Navigation(handleTouchEnd(StartedAt(q), pt))

\* C22: the gesture sample is transient: once handleSwipe has returned the
\* controller holds no coordinate recorded for the interaction (its touch
\* fields are back at their initial 0), and none is used to classify a
\* later touch-end.
C22_GestureSampleDiscarded ==
    /\ lastOp = "touchend" =>
           <<touchStartX, touchStartY, touchEndX, touchEndY>> = <<0, 0, 0, 0>>
    /\ C22_StartNotUsedByLaterTouchEnd

\* C23: a touch-start, and a key-down of a key other than the four arrow
\* keys, leave currentSection, currentPage and every section, page and
\* indicator flag unchanged; a touch-start changes only the recorded start
\* coordinates.
C23_OnlyTransitionsNavigate ==
    /\ \A pt \in Points :
           /\ SameNavigation(handleTouchStart(Fresh, pt))
           /\ handleTouchStart(Fresh, pt)
                  = [Fresh EXCEPT !.touchStartX = pt[1], !.touchStartY = pt[2]]
    /\ \A key \in Keys \ ArrowKeys :
           SameNavigation(handleKeyDown(Fresh, key))

\* a touch-start at (50, 0) ran last while the end position recorded is
\* (0, 0), on the first page of a two-page section: classifying the sample
\* would have stepped to the next page
C23_Witness ==
    /\ lastOp = "touchstart"
    /\ <<touchStartX, touchStartY>> = <<50, 0>>
    /\ <<touchEndX, touchEndY>> = <<0, 0>>
    /\ currentSection = 1
    /\ pageCountOf(This, 1) = 2
    /\ currentPage = 0

\* C24: every section of every generated document owns a non-empty
\* sequence of pages: each emitted section element contains at least one
\* page element, so pageCountOf(s) >= 1 for every section s the controller
\* can enter.
C24_SectionsOwnPages ==
    \A s \in 0 .. (totalSections - 1) :
        /\ s \in DOMAIN sections
        /\ pageCountOf(This, s) >= 1

KeySuccessors(st) == {Unprevented(handleKeyDown(st, key)) : key \in Keys}

\* the controllers one swipe gesture (a touch-start, then a touch-end)
\* away from st
SwipeSuccessors(st) ==
    {handleTouchEnd(handleTouchStart(st, from), to) :
        from \in Points, to \in Points}

RECURSIVE KeyClosure(_, _)
\* seen, and every controller that key-downs lead to from frontier
KeyClosure(seen, frontier) ==
    IF frontier = {} THEN seen
    ELSE LET new == UNION {KeySuccessors(st) : st \in frontier} \ seen
         IN KeyClosure(seen \cup new, new)

RECURSIVE SwipeClosure(_, _)
\* seen, and every controller that swipes lead to from frontier
SwipeClosure(seen, frontier) ==
    IF frontier = {} THEN seen
    ELSE LET new == UNION {SwipeSuccessors(st) : st \in frontier} \ seen
         IN SwipeClosure(seen \cup new, new)

\* the pairs (currentSection, currentPage) of a set of controllers
PairsOf(controllers) ==
    {<<st.currentSection, st.currentPage>> : st \in controllers}

\* the pairs (s, p) with 0 <= s < totalSections and 0 <= p < pageCountOf(s)
ValidPairs ==
    {sp \in (0 .. (totalSections - 1)) \X (0 .. MaxPages) :
        sp[2] < pageCountOf(This, sp[1])}

\* every valid pair is reached from the loaded document by key-downs
\* alone, and by swipes alone
C27_ValidPairsReachable ==
    lastOp = "load" =>
        /\ ValidPairs \subseteq PairsOf(KeyClosure({Fresh}, {Fresh}))
        /\ ValidPairs \subseteq PairsOf(SwipeClosure({Fresh}, {Fresh}))

\* C27: the state space is exactly the set of valid pairs: the pairs
\* (currentSection, currentPage) reached from (0, 0) by key-down events
\* alone are the pairs (s, p) with 0 <= s < totalSections and
\* 0 <= p < pageCountOf(s), and likewise for swipe gestures alone.
C27_StateSpaceIsValidPairs ==
    lastOp = "load" =>
        /\ PairsOf(KeyClosure({Fresh}, {Fresh})) = ValidPairs
        /\ PairsOf(SwipeClosure({Fresh}, {Fresh})) = ValidPairs

\* C27 restricted to documents all of whose sections hold a page
C27_ValidPairsOnNonEmptySections ==
    AllSectionsNonEmpty => C27_StateSpaceIsValidPairs

\* C28: the step operations delegate to the absolute ones: away from a
\* boundary nextSection()/prevSection() have exactly the effect of
\* goToSection(currentSection + 1 / - 1) and nextPage()/prevPage() exactly
\* the effect of goToPage(currentPage + 1 / - 1); so a single step
\* operation never changes its coordinate by more than one.
C28_StepsDelegate ==
    /\ currentSection < totalSections - 1 =>
           nextSection(This) = goToSection(This, currentSection + 1)
    /\ currentSection > 0 =>
           prevSection(This) = goToSection(This, currentSection - 1)
    /\ currentPage < pageCountOf(This, currentSection) - 1 =>
           nextPage(This) = goToPage(This, currentPage + 1)
    /\ currentPage > 0 =>
           prevPage(This) = goToPage(This, currentPage - 1)
    /\ \A st \in {nextSection(This), prevSection(This)} :
           Abs(st.currentSection - currentSection) <= 1
    /\ \A st \in {nextPage(This), prevPage(This)} :
           /\ Abs(st.currentPage - currentPage) <= 1
           /\ st.currentSection = currentSection

\* prevSection() ran last, from the last of three sections: section 1 is
\* shown, section 0 is "prev" and section 2 carries no flag
C28_Witness ==
    /\ lastOp = "prevSection"
    /\ totalSections = 3
    /\ currentSection = 1
    /\ currentPage = 0
    /\ sections[0].classList = {"prev"}
    /\ sections[1].classList = {"active"}
    /\ sections[2].classList = {}
    /\ sectionDots[1] = {"active"}

(* Markdown mode: the config built from the files of the command line *)

Built == buildConfigFromMarkdown(mdFiles, mdOptions)

\* the places (section, page), counted from 1, of the pages of the config
PagePlaces ==
    {kp \in (1 .. MaxFiles) \X (1 .. MaxFiles) :
        /\ kp[1] \in DOMAIN Built.sections
        /\ kp[2] \in DOMAIN Built.sections[kp[1]]}

\* the places of the page made from the file at position i
PlacesOf(i) ==
    {kp \in PagePlaces : Built.sections[kp[1]][kp[2]].source = i}

\* the document is the one generated from the config built
DocumentOfBuilt ==
    /\ totalSections = Len(Built.sections) + 1
    /\ \A k \in DOMAIN Built.sections :
           pageCountOf(This, k) = Len(Built.sections[k])

\* C29: in Markdown mode each input file becomes exactly one page: for a
\* non-empty list of n files buildConfigFromMarkdown returns a config
\* whose sections together hold exactly n pages, each page in exactly one
\* section, pages within a section in input-file order and sections in
\* order of first appearance.
C29_EachFileOnePage ==
    Len(mdFiles) >= 1 =>
        /\ ~Built.thrown
        /\ Cardinality(PagePlaces) = Len(mdFiles)
        /\ \A i \in 1 .. Len(mdFiles) : Cardinality(PlacesOf(i)) = 1
        /\ \A kp \in PagePlaces : \A lq \in PagePlaces :
               LET a == Built.sections[kp[1]][kp[2]].source
                   b == Built.sections[lq[1]][lq[2]].source
               IN /\ (kp[1] = lq[1] /\ kp[2] < lq[2]) => a < b
                  /\ (kp[1] < lq[1] /\ kp[2] = 1 /\ lq[2] = 1) => a < b
        /\ lastOp \in {"load", "keydown"} => DocumentOfBuilt

\* the document of two files has loaded; their "section:" lines differ
\* and name the same section, which holds both pages
C29_Witness ==
    /\ lastOp = "load"
    /\ Len(mdFiles) = 2
    /\ mdFiles[1] # mdFiles[2]
    /\ totalSections = 2
    /\ pageCountOf(This, 1) = 2
    /\ Built.sections[1][1].source = 1
    /\ Built.sections[1][2].source = 2

\* the section name of the file at position i by the precedence front
\* matter, --section, "Articles", each taken if it is not the empty string
NameByPrecedence(i) ==
    LET fm == parseFrontMatter(mdFiles[i]) IN
    IF fm.section # << >> THEN trim(fm.section)
    ELSE IF mdOptions.section # << >> THEN trim(mdOptions.section)
    ELSE Articles

\* the section of the Map that holds the page of the file at position i
SectionsHolding(i) ==
    LET sectionsMap == sectionsMapOf(mdFiles, mdOptions) IN
    {k \in DOMAIN sectionsMap :
        \E p \in DOMAIN sectionsMap[k].pages :
            sectionsMap[k].pages[p].source = i}

\* C30: a Markdown page's section is chosen by precedence: the
\* front-matter section value if present and non-empty, otherwise the
\* --section option, otherwise the default "Articles"; two files resolving
\* to the same trimmed section name land in the same section.
C30_SectionByPrecedence ==
    /\ \A i \in 1 .. Len(mdFiles) :
           \A k \in SectionsHolding(i) :
               sectionsMapOf(mdFiles, mdOptions)[k].key = NameByPrecedence(i)
    /\ \A i \in 1 .. Len(mdFiles) : \A j \in 1 .. Len(mdFiles) :
           NameByPrecedence(i) = NameByPrecedence(j)
               => SectionsHolding(i) = SectionsHolding(j)

\* no "section:" value and no --section is a string of blanks only
NoBlankName ==
    /\ \A i \in 1 .. Len(mdFiles) :
           LET v == parseFrontMatter(mdFiles[i]).section IN
           v # << >> => trim(v) # << >>
    /\ mdOptions.section # << >> => trim(mdOptions.section) # << >>

\* C30 restricted to command lines with no blank section name
C30_PrecedenceOnNonBlankNames == NoBlankName => C30_SectionByPrecedence

\* the two files of the command line land in one section exactly if the
\* precedence gives them the same name
C30_SameNameSameSection ==
    \A i \in 1 .. Len(mdFiles) : \A j \in 1 .. Len(mdFiles) :
        (NameByPrecedence(i) = NameByPrecedence(j))
            <=> (SectionsHolding(i) = SectionsHolding(j))

\* a page lands in the default section "Articles" only if its front
\* matter names "Articles", or its front matter gives no name (none, or
\* blanks only) and the --section option names "Articles" or gives none
C30_DefaultOnlyWhenNothingGiven ==
    \A i \in 1 .. Len(mdFiles) :
        \A k \in SectionsHolding(i) :
            sectionsMapOf(mdFiles, mdOptions)[k].key = Articles =>
                LET v == parseFrontMatter(mdFiles[i]).section IN
                \/ trim(v) = Articles
                \/ trim(v) = << >> /\ trim(mdOptions.section) \in {Articles, << >>}

\* the class attribute of <body> holds "layout-" and an allowed name
LayoutBodyClass == bodyClass \in LayoutClasses

C31_NormalizeLayoutIntoAllowed ==
    \A x \in LayoutInputs :
        /\ normalizeLayout(x) \in allowed
        /\ toLowerCase(x) \in allowed => normalizeLayout(x) = toLowerCase(x)
        /\ toLowerCase(x) \notin allowed => normalizeLayout(x) = classic
        /\ normalizeLayout(normalizeLayout(x)) = normalizeLayout(x)

\* the body class is the layout class of the config's layout unless the
\* placeholder was left in place
C31_BodyClassUnlessPlaceholderLeft ==
    \/ bodyClass = layoutClass(layout)
    \/ bodyClass = "{{LAYOUT_CLASS}}"

\* a document whose body class is the text {{LAYOUT_CLASS}}
C31_PlaceholderLeftInBody ==
    /\ layout = split
    /\ bodyClass = "{{LAYOUT_CLASS}}"
    /\ lastOp = "keydown"

\* C32: a gesture at or above the threshold whose two axis displacements
\* are equal in size (an exact diagonal) is taken as horizontal: the
\* touch-end does what nextPage does when deltaX < 0 and what prevPage does
\* when deltaX > 0, and the current section stays, with its flags and the
\* section indicators as they were.
C32_DiagonalIsHorizontal ==
    \A pt \in Points :
        (Larger(pt) >= minSwipeDistance /\ Abs(DeltaX(pt)) = Abs(DeltaY(pt))) =>
            LET st == handleTouchEnd(This, pt) IN
            /\ DeltaX(pt) < 0 => st = nextPage(Sampled(pt))
            /\ DeltaX(pt) > 0 => st = prevPage(Sampled(pt))
            /\ st.currentSection = currentSection
            /\ st.sectionDots = sectionDots
            /\ \A s \in DOMAIN sections :
                   st.sections[s].classList = sections[s].classList

\* a touch-end ran last on the diagonal (50, 0) -> (-10, 60), deltaX = -60
\* and deltaY = 60, and the controller stands on page 1 of section 1 with
\* page 0 behind it
C32_Witness ==
    /\ lastOp = "touchend"
    /\ touchStartX = 50 /\ touchStartY = 0
    /\ touchEndX = -10 /\ touchEndY = 60
    /\ currentSection = 1
    /\ currentPage = 1
    /\ sections[1].pages[0] = {"prev"}

\* C33: goToSection(i) with i the current section, as a click on the
\* section indicator that is already "active" makes it, is not a no-op:
\* currentSection stays, currentPage becomes 0, the pages of the section
\* are flagged for page 0 ("active" on page 0, no flag on the others) and
\* so are its page indicators; from a page other than 0 the state changes.
C33_SameSectionResetsPage ==
    LET st == goToSection(This, currentSection) IN
    /\ sectionDotClick(This, currentSection) = st
    /\ st.currentSection = currentSection
    /\ st.currentPage = 0
    /\ \A p \in DOMAIN st.sections[currentSection].pages :
           st.sections[currentSection].pages[p] \cap Flags
               = IF p = 0 THEN {"active"} ELSE {}
    /\ Carrying(st.sections[currentSection].pageDots, "active")
           = {0} \cap DOMAIN st.sections[currentSection].pageDots
    /\ currentPage > 0 => st # This

\* goToSection ran last and section 1, of two pages, shows page 0 with no
\* flag on page 1, as a call of goToSection(1) made on page 1 of section 1
\* leaves it
C33_Witness ==
    /\ lastOp = "goToSection"
    /\ currentSection = 1
    /\ currentPage = 0
    /\ sections[1].classList = {"active"}
    /\ pageCountOf(This, 1) = 2
    /\ sections[1].pages[0] = {"active"}
    /\ sections[1].pages[1] = {}
    /\ sections[1].pageDots[0] = {"active"}
    /\ sections[1].pageDots[1] = {}

\* C34: goToSection(i) rewrites page flags and page indicator flags in the
\* target section i only: in every other section, the one being left
\* included, every page and every page indicator keeps its flags, so that
\* the section left at page p keeps page p flagged "active".
C34_OnlyTargetSectionReflagged ==
    \A i \in SectionArgs :
        LET st == goToSection(This, i) IN
        /\ \A s \in DOMAIN sections :
               s # i => /\ st.sections[s].pages = sections[s].pages
                        /\ st.sections[s].pageDots = sections[s].pageDots
        /\ (i # currentSection /\ currentPage < pageCountOf(This, currentSection))
               => "active" \in st.sections[currentSection].pages[currentPage]

\* in every step, whatever ran, the pages and page indicators of the
\* sections other than the one shown after the step keep their flags
C34_LeftSectionsKeepPageFlags ==
    [][\A s \in DOMAIN sections :
          s # currentSection' =>
              /\ sections'[s].pages = sections[s].pages
              /\ sections'[s].pageDots = sections[s].pageDots]_vars

\* goToSection ran last and the cover is shown, while section 1 is still
\* as it was left at its second page: page 0 "prev", page 1 "active" and
\* the second page indicator "active"
C34_Witness ==
    /\ lastOp = "goToSection"
    /\ totalSections = 2
    /\ currentSection = 0
    /\ currentPage = 0
    /\ sections[1].classList = {}
    /\ pageCountOf(This, 1) = 2
    /\ sections[1].pages[0] = {"prev"}
    /\ sections[1].pages[1] = {"active"}
    /\ sections[1].pageDots[0] = {}
    /\ sections[1].pageDots[1] = {"active"}

\* the transition called for by the displacement (dx, dy), made on st
Classified(st, dx, dy) ==
    IF Abs(dx) < minSwipeDistance /\ Abs(dy) < minSwipeDistance THEN st
    ELSE IF Abs(dy) > Abs(dx)
         THEN (IF dy < 0 THEN nextSection(st) ELSE prevSection(st))
         ELSE (IF dx < 0 THEN nextPage(st) ELSE prevPage(st))

\* C35: a touch-end is classified against the start coordinates recorded
\* last, (0, 0) at first, whichever touch point they came from: a second
\* touch-start overwrites what the first recorded, every touch-end is
\* classified by the displacement from the recorded start to its own
\* position, and it leaves the recorded start in place, so that a
\* touch-end not preceded by a new touch-start uses the old start again.
C35_LatestStartClassifiesTouchEnd ==
    /\ lastOp = "load" => (touchStartX = 0 /\ touchStartY = 0)
    /\ \A a \in Points : \A b \in Points :
           LET st == handleTouchStart(handleTouchStart(Fresh, a), b) IN
           /\ st.touchStartX = b[1]
           /\ st.touchStartY = b[2]
           /\ st = handleTouchStart(Fresh, b)
    /\ \A pt \in Points :
           LET st == handleTouchEnd(Fresh, pt) IN
           /\ st = Classified([Fresh EXCEPT !.touchEndX = pt[1],
                                            !.touchEndY = pt[2]],
                              pt[1] - touchStartX, pt[2] - touchStartY)
           /\ st.touchStartX = touchStartX
           /\ st.touchStartY = touchStartY

\* a touch-end ran last and the last of three sections is shown with
\* (-10, 60) as the recorded start and (0, 0) as the end: both steps from
\* the cover were upward swipes measured from that one start
C35_Witness ==
    /\ lastOp = "touchend"
    /\ touchStartX = -10 /\ touchStartY = 60
    /\ touchEndX = 0 /\ touchEndY = 0
    /\ totalSections = 3
    /\ currentSection = 2
    /\ currentPage = 0

\* st is what one call of at most one of the four step methods makes of x
OneStepOf(x, st) ==
    \/ st = x
    \/ st = nextSection(x)
    \/ st = prevSection(x)
    \/ st = nextPage(x)
    \/ st = prevPage(x)

\* from now to st, the section moved by one and page 0 is shown, or the
\* page moved by one within the section, or nothing of the navigation moved
AtMostOneTransition(st) ==
    \/ Abs(st.currentSection - currentSection) = 1 /\ st.currentPage = 0
    \/ st.currentSection = currentSection
           /\ Abs(st.currentPage - currentPage) = 1
    \/ SameNavigation(st)

\* C36: one input event makes at most one transition: a touch-end or a
\* key-down calls at most one of nextSection, prevSection, nextPage and
\* prevPage, so that either currentSection changes by exactly one and
\* currentPage becomes 0, or currentPage changes by exactly one and
\* currentSection stays, or nothing changes.
C36_OneEventOneTransition ==
    /\ \A pt \in Points :
           LET st == handleTouchEnd(Fresh, pt) IN
           /\ OneStepOf([Fresh EXCEPT !.touchEndX = pt[1],
                                      !.touchEndY = pt[2]], st)
           /\ AtMostOneTransition(st)
    /\ \A key \in Keys :
           LET st == handleKeyDown(Fresh, key) IN
           /\ OneStepOf(Fresh, st) \/ OneStepOf(preventDefault(Fresh), st)
           /\ AtMostOneTransition(st)

\* a key-down ran last in a document of three sections and section 1 is
\* shown: one step from the cover, with the last section not yet reached
C36_Witness ==
    /\ lastOp = "keydown"
    /\ defaultPrevented
    /\ totalSections = 3
    /\ currentSection = 1
    /\ currentPage = 0
    /\ sections[0].classList = {"prev"}
    /\ sections[2].classList = {}
    /\ sectionDots[2] = {}

\* C37: goToSection and goToPage are idempotent: from every reachable
\* state and for every integer argument, in range or not, a second call
\* with the same argument leaves the whole state (coordinates, flags,
\* indicators) as the first call left it.
C37_GoToIdempotent ==
    /\ \A i \in SectionArgs :
           goToSection(goToSection(This, i), i) = goToSection(This, i)
    /\ \A j \in PageArgs :
           goToPage(goToPage(This, j), j) = goToPage(This, j)

\* goToPage ran last and shows the second page of the last of three
\* sections, with the first page behind it
C37_Witness ==
    /\ lastOp = "goToPage"
    /\ totalSections = 3
    /\ currentSection = 2
    /\ currentPage = 1
    /\ sections[2].pages[0] = {"prev"}
    /\ sections[2].pages[1] = {"active"}
    /\ sections[2].pageDots[1] = {"active"}

\* C38: page steps round-trip: from every reachable state that is not at
\* the last page of its section, nextPage() followed by prevPage() gives
\* back the identical state (coordinates, every section and page flag,
\* every indicator flag); and so does prevPage() followed by nextPage()
\* from every reachable state that is not at page 0.
C38_PageStepsRoundTrip ==
    /\ currentPage # pageCountOf(This, currentSection) - 1
           => prevPage(nextPage(This)) = This
    /\ currentPage # 0 => nextPage(prevPage(This)) = This

\* prevPage ran last and page 0 of the last of three sections is shown,
\* flagged as at the first entry, with no flag on the second page and its
\* indicator: where a step to page 1 and back ends
C38_Witness ==
    /\ lastOp = "prevPage"
    /\ totalSections = 3
    /\ currentSection = 2
    /\ currentPage = 0
    /\ pageCountOf(This, 2) = 2
    /\ sections[2].pages[0] = {"active"}
    /\ sections[2].pages[1] = {}
    /\ sections[2].pageDots[0] = {"active"}
    /\ sections[2].pageDots[1] = {}

====
